---- MODULE Spec2Model ----
(***************************************************************************)
(* Huffman code description decoder of brunsli (c/dec/huffman_decode.cc):  *)
(* ReadHuffmanCodeLengths, ReadSimpleCode,                                 *)
(* HuffmanDecodingData::ReadFromBitStream and ::ReadSymbol.                *)
(*                                                                         *)
(* The bit stream is materialised lazily: a bit is chosen the first time   *)
(* the decoder peeks at it, so one behaviour stands for every stream that  *)
(* shares the bits seen so far.                                            *)
(***************************************************************************)
EXTENDS Integers, Sequences, FiniteSets, TLC

VARIABLES
  pc,                       \* position of the caller / of the running function
  alphabet_size,            \* argument of ReadFromBitStream
  table_,                   \* HuffmanDecodingData::table_
  table0,                   \* table_ as it was before the call (history)
  br,                       \* the BrunsliBitReader
  simple_code_or_skip,      \* ReadFromBitStream local
  i,                        \* index of the meta-code length loop
  meta_space,               \* ReadFromBitStream local `space` (budget of 32)
  num_codes,                \* ReadFromBitStream local
  code_length_code_lengths, \* the 18 meta-code lengths
  num_symbols,              \* ReadHuffmanCodeLengths argument
  code_lengths,             \* ReadHuffmanCodeLengths output buffer
  meta_table,               \* ReadHuffmanCodeLengths local `table`, of the meta code
  symbol, prev_code_len, repeat, repeat_code_len, space,
  ok,                       \* value returned by ReadHuffmanCodeLengths
  result,                   \* value returned by ReadFromBitStream
  exit,                     \* how ReadHuffmanCodeLengths left (history)
  last,                     \* the last loop iteration of either loop (history)
  iters,                    \* iterations of the code-length loop (history)
  maxw,                     \* 1 + highest index of code_lengths written (history)
  sc,                       \* what ReadSimpleCode read (history)
  rs                        \* what ReadSymbol did (history)

vars == <<pc, alphabet_size, table_, table0, br, simple_code_or_skip, i,
          meta_space, num_codes, code_length_code_lengths, num_symbols,
          code_lengths, meta_table, symbol, prev_code_len, repeat, repeat_code_len,
          space, ok, result, exit, last, iters, maxw, sc, rs>>

-----------------------------------------------------------------------------
(* Bounds of the model. *)

\* real bits a stream may hold in a ReadFromBitStream session
MaxStreamBits == 16
\* real bits a stream may hold in a direct ReadHuffmanCodeLengths call
MaxLengthBits == 12
\* real bits of a stream that selects the code-length (non-simple) path
MaxComplexBits == 12
\* largest alphabet explored on the code-length path
MaxComplexAlphabet == 2
\* largest num_symbols of a direct ReadHuffmanCodeLengths call
MaxNumSymbols == 12

-----------------------------------------------------------------------------
(* Format constants. *)

kCodeLengthCodes == 18
kDefaultCodeLength == 8
kCodeLengthRepeatCode == 16
kFullSpace == 32768
kHuffmanTableBits == 8
kMaxHuffmanBits == 16

\* an order with two entries exchanged
kCodeLengthCodeOrder_Swapped ==
  [k \in 0..17 |->
     <<1, 2, 3, 4, 0, 5, 16, 6, 17, 7, 8, 9, 10, 11, 12, 13, 14, 15>>[k + 1]]

kCodeLengthCodeOrder ==
  [k \in 0..17 |->
     <<1, 2, 3, 4, 0, 5, 17, 6, 16, 7, 8, 9, 10, 11, 12, 13, 14, 15>>[k + 1]]

HuffmanCode(b, v) == [bits |-> b, value |-> v]

\* static const HuffmanCode huff[16]
huff ==
  [k \in 0..15 |->
     <<HuffmanCode(2, 0), HuffmanCode(2, 4), HuffmanCode(2, 3), HuffmanCode(3, 2),
       HuffmanCode(2, 0), HuffmanCode(2, 4), HuffmanCode(2, 3), HuffmanCode(4, 1),
       HuffmanCode(2, 0), HuffmanCode(2, 4), HuffmanCode(2, 3), HuffmanCode(3, 2),
       HuffmanCode(2, 0), HuffmanCode(2, 4), HuffmanCode(2, 3), HuffmanCode(4, 5)>>[k + 1]]

-----------------------------------------------------------------------------
(* Arithmetic helpers. *)

Min(a, b) == IF a < b THEN a ELSE b

RECURSIVE Pow2(_)
Pow2(n) == IF n <= 0 THEN 1 ELSE 2 * Pow2(n - 1)

\* x >> n on a non-negative value
Shr(x, n) == x \div Pow2(n)

\* static_cast<uint8_t>(x)
ToUint8(x) == x % 256

\* static_cast<int>(d * kFullSpace) of a size_t d: the product modulo 2^32, read
\* as a 32-bit two's complement value (2^32 = 2^17 * kFullSpace)
ScaledToInt32(d) ==
  LET m == d % Pow2(17) IN
  IF m < Pow2(16) THEN m * kFullSpace ELSE (m - Pow2(17)) * kFullSpace

\* x >> n on an int (arithmetic shift: floor division)
AShr(x, n) == IF x >= 0 THEN x \div Pow2(n) ELSE -((-x + Pow2(n) - 1) \div Pow2(n))

RECURSIVE Log2FloorNonZero(_)
Log2FloorNonZero(x) == IF x <= 1 THEN 0 ELSE 1 + Log2FloorNonZero(x \div 2)

\* the n low bits of x in reverse order
RECURSIVE ReverseBits(_, _)
ReverseBits(x, n) ==
  IF n = 0 THEN 0 ELSE (x % 2) * Pow2(n - 1) + ReverseBits(x \div 2, n - 1)

Size(t) == Cardinality(DOMAIN t)

-----------------------------------------------------------------------------
(* The bit source.  val/len: the bits peeked and not yet consumed (least     *)
(* significant first); pos: bits consumed; room: real bits the stream may    *)
(* still deliver (0: the stream has ended); over: bits past the end were     *)
(* consumed.                                                                 *)

NewReader(limit) == [val |-> 0, len |-> 0, pos |-> 0, room |-> limit, over |-> FALSE]

\* the readers a peek of n bits can leave: the stream delivers the missing
\* bits, or ends before it has delivered them all
PeekSet(b, n) ==
  IF b.len >= n \/ b.room = 0 THEN {b}
  ELSE LET need == n - b.len IN
       { [b EXCEPT !.val = @ + x * Pow2(b.len), !.len = @ + k,
                   !.room = IF k = need THEN @ - k ELSE 0] :
           <<k, x>> \in { kx \in (0..Min(need, b.room)) \X (0..(Pow2(need) - 1)) :
                            kx[2] < Pow2(kx[1]) } }

\* BrunsliBitReaderGet on a reader the peek has filled: zero-padded past the end
BrunsliBitReaderGet(b, n) == b.val % Pow2(n)

BrunsliBitReaderDrop(b, n) ==
  IF n <= b.len
    THEN [b EXCEPT !.val = @ \div Pow2(n), !.len = @ - n, !.pos = @ + n]
    ELSE [b EXCEPT !.val = 0, !.len = 0, !.pos = @ + n, !.room = 0, !.over = TRUE]

\* BrunsliBitReaderRead: the possible (value, reader) pairs
ReadSet(b, n) ==
  { [v |-> BrunsliBitReaderGet(p, n), br |-> BrunsliBitReaderDrop(p, n)] : p \in PeekSet(b, n) }

BrunsliBitReaderIsHealthy(b) == ~b.over

\* the reader of a stream that holds at most `limit` real bits
ShortStream(b, limit) ==
  [b EXCEPT !.room = IF b.room = 0 THEN 0 ELSE Min(@, limit - Min(limit, b.pos + b.len))]

-----------------------------------------------------------------------------
(* ReadSimpleCode (lines 96-187). *)

FromSeq(q) == [k \in 0..(Len(q) - 1) |-> q[k + 1]]

\* a width computed from the size instead of the largest symbol
MaxBitsOf_FromSize(a) == IF a > 0 THEN Log2FloorNonZero(a) + 1 ELSE 0

\* lines 99-100
MaxBitsOf(a) == IF a > 1 THEN Log2FloorNonZero(a - 1) + 1 ELSE 0

\* lines 105-111: the loop from index k on.  Each outcome tells whether a symbol
\* was rejected, the symbols stored, the reads made and the reader left.
RECURSIVE ReadSymbols(_, _, _, _, _, _, _)
ReadSymbols(a, max_bits, num, k, symbols, reads, b) ==
  IF k >= num
    THEN {[rej |-> FALSE, symbols |-> symbols, reads |-> reads, br |-> b]}
    ELSE UNION {
           LET rd == Append(reads, [bits |-> r.br.pos - b.pos, v |-> r.v, rej |-> r.v >= a]) IN
           IF r.v >= a
             THEN {[rej |-> TRUE, symbols |-> symbols, reads |-> rd, br |-> r.br]}
             ELSE ReadSymbols(a, max_bits, num, k + 1, [symbols EXCEPT ![k] = r.v], rd, r.br)
           : r \in ReadSet(b, max_bits) }

\* a check that compares neighbours only
HasDuplicate_Adjacent(symbols, num) ==
  \E x \in 0..(num - 2) : symbols[x] = symbols[x + 1]

\* lines 113-117
HasDuplicate(symbols, num) ==
  \E x \in 0..(num - 2) : \E y \in (x + 1)..(num - 1) : symbols[x] = symbols[y]

\* `if (symbols[x] > symbols[y]) swap_symbols(x, y)`
SwapIfGreater(s, x, y) ==
  IF s[x] > s[y] THEN [s EXCEPT ![x] = s[y], ![y] = s[x]] ELSE s

\* a sort whose inner loop stops one short
Sort4_Short(s) ==
  LET a1 == SwapIfGreater(s, 0, 1)
      a2 == SwapIfGreater(a1, 0, 2)
      a3 == SwapIfGreater(a2, 1, 2)
  IN  SwapIfGreater(a3, 2, 3)

\* lines 148-152
Sort4(s) ==
  LET a1 == SwapIfGreater(s, 0, 1)
      a2 == SwapIfGreater(a1, 0, 2)
      a3 == SwapIfGreater(a2, 0, 3)
      a4 == SwapIfGreater(a3, 1, 2)
      a5 == SwapIfGreater(a4, 1, 3)
  IN  SwapIfGreater(a5, 2, 3)

\* lines 128-177: the hand-built table of table_size entries
SmallTable(n, symbols) ==
  CASE n = 1 -> FromSeq(<<HuffmanCode(0, symbols[0])>>)
    [] n = 2 -> LET s == SwapIfGreater(symbols, 0, 1) IN
                FromSeq(<<HuffmanCode(1, s[0]), HuffmanCode(1, s[1])>>)
    [] n = 3 -> LET s == SwapIfGreater(symbols, 1, 2) IN
                FromSeq(<<HuffmanCode(1, s[0]), HuffmanCode(2, s[1]),
                          HuffmanCode(1, s[0]), HuffmanCode(2, s[2])>>)
    [] n = 4 -> LET s == Sort4(symbols) IN
                FromSeq(<<HuffmanCode(2, s[0]), HuffmanCode(2, s[2]),
                          HuffmanCode(2, s[1]), HuffmanCode(2, s[3])>>)
    [] n = 5 -> LET s == SwapIfGreater(symbols, 2, 3) IN
                FromSeq(<<HuffmanCode(1, s[0]), HuffmanCode(2, s[1]),
                          HuffmanCode(1, s[0]), HuffmanCode(3, s[2]),
                          HuffmanCode(1, s[0]), HuffmanCode(2, s[1]),
                          HuffmanCode(1, s[0]), HuffmanCode(3, s[3])>>)

\* lines 179-184: double the first table_size entries until goal_size is reached
RECURSIVE Replicate(_, _, _)
Replicate(t, table_size, goal_size) ==
  IF table_size = goal_size THEN t
  ELSE Replicate([k \in 0..(2 * table_size - 1) |-> t[k % table_size]],
                 2 * table_size, goal_size)

\* the entries of `filled` stored over those of `table`
WriteTable(table, filled) ==
  [k \in DOMAIN table |-> IF k \in DOMAIN filled THEN filled[k] ELSE table[k]]

NoSimpleCode == [stage |-> "none", n0 |-> 0, n |-> 0, reads |-> <<>>,
                 symbols |-> [k \in 0..3 |-> 0], table_size |-> 0]

\* lines 120-186, once the symbols are read and distinct: num is 1..5
BuildSimpleCode(num0, num, symbols, reads, b, table) ==
  LET small == SmallTable(num, symbols)
      full  == Replicate(small, Size(small), Pow2(kHuffmanTableBits))
  IN  [ok |-> BrunsliBitReaderIsHealthy(b), table |-> WriteTable(table, full), br |-> b,
       sc |-> [stage |-> "built", n0 |-> num0, n |-> num, reads |-> reads,
               symbols |-> symbols, table_size |-> Size(small)]]

\* ReadSimpleCode(alphabet_size, br, table): the possible outcomes
ReadSimpleCode(a, b, table) ==
  UNION {
    LET num == r.v + 1 IN
    UNION {
      IF s.rej
        THEN {[ok |-> FALSE, table |-> table, br |-> s.br,
               sc |-> [NoSimpleCode EXCEPT !.stage = "symbol", !.n0 = num, !.n = num,
                                           !.reads = s.reads, !.symbols = s.symbols]]}
      ELSE IF HasDuplicate(s.symbols, num)
        THEN {[ok |-> FALSE, table |-> table, br |-> s.br,
               sc |-> [NoSimpleCode EXCEPT !.stage = "duplicate", !.n0 = num, !.n = num,
                                           !.reads = s.reads, !.symbols = s.symbols]]}
      ELSE IF num = 4
        THEN { BuildSimpleCode(num, num + e.v, s.symbols, s.reads, e.br, table) :
                 e \in ReadSet(s.br, 1) }
        ELSE { BuildSimpleCode(num, num, s.symbols, s.reads, s.br, table) }
      : s \in ReadSymbols(a, MaxBitsOf(a), num, 0, [k \in 0..3 |-> 0], <<>>, r.br) }
    : r \in ReadSet(b, 2) }

-----------------------------------------------------------------------------
(* BuildHuffmanTable (huffman_table.cc, outside this file): the two-level    *)
(* canonical table of the lengths lens[0..n-1], as a function from 0; the    *)
(* empty function when the builder reports failure (size 0).                 *)

kMaxLength == 15

\* sum of 2^(kMaxLength - len) over the used symbols below k
RECURSIVE KraftSum(_, _)
KraftSum(lens, k) ==
  IF k = 0 THEN 0
  ELSE KraftSum(lens, k - 1) +
       (IF lens[k - 1] # 0 THEN Pow2(kMaxLength - lens[k - 1]) ELSE 0)

\* space taken by the used symbols below k that precede s in (length, symbol) order
RECURSIVE SpaceBefore(_, _, _)
SpaceBefore(lens, s, k) ==
  IF k = 0 THEN 0
  ELSE SpaceBefore(lens, s, k - 1) +
       (IF /\ lens[k - 1] # 0
           /\ \/ lens[k - 1] < lens[s]
              \/ lens[k - 1] = lens[s] /\ k - 1 < s
          THEN Pow2(kMaxLength - lens[k - 1]) ELSE 0)

\* the canonical code of s, in the order its bits are read from the stream
ReversedCode(lens, n, s) ==
  ReverseBits(SpaceBefore(lens, s, n) \div Pow2(kMaxLength - lens[s]), lens[s])

BuildHuffmanTable(root_bits, lens, n) ==
  LET used  == { s \in 0..(n - 1) : lens[s] # 0 }
      root  == Pow2(root_bits)
      rev   == [s \in used |-> ReversedCode(lens, n, s)]
      short == { s \in used : lens[s] <= root_bits }
      long  == used \ short
      \* root indices that lead to a second-level table
      subs  == { rev[s] % root : s \in long }
      group == [r \in subs |-> { s \in long : rev[s] % root = r }]
      sbits == [r \in subs |->
                  CHOOSE m \in 1..kMaxLength :
                    /\ \E s \in group[r] : lens[s] - root_bits = m
                    /\ \A s \in group[r] : lens[s] - root_bits <= m]
      RECURSIVE SizeOf(_)
      SizeOf(R) == IF R = {} THEN 0
                   ELSE LET r == CHOOSE x \in R : TRUE
                        IN  Pow2(sbits[r]) + SizeOf(R \ {r})
      offset == [r \in subs |->
                   root + SizeOf({ q \in subs :
                                     ReverseBits(q, root_bits) < ReverseBits(r, root_bits) })]
      total == root + SizeOf(subs)
      owner == [k \in root..(total - 1) |->
                  CHOOSE r \in subs : offset[r] <= k /\ k < offset[r] + Pow2(sbits[r])]
  IN
  IF n > Pow2(kMaxHuffmanBits) THEN << >>
  ELSE IF Cardinality(used) = 1
    THEN [k \in 0..(root - 1) |-> HuffmanCode(0, CHOOSE s \in used : TRUE)]
  ELSE IF KraftSum(lens, n) # Pow2(kMaxLength) THEN << >>
  ELSE [k \in 0..(total - 1) |->
          IF k < root
            THEN IF k \in subs
                   THEN HuffmanCode(sbits[k] + root_bits, offset[k] - k)
                   ELSE LET s == CHOOSE t \in short : k % Pow2(lens[t]) = rev[t]
                        IN  HuffmanCode(lens[s], s)
            ELSE LET r == owner[k]
                     j == k - offset[r]
                     s == CHOOSE t \in group[r] :
                            j % Pow2(lens[t] - root_bits) = rev[t] \div root
                 IN  HuffmanCode(lens[s] - root_bits, s)]

-----------------------------------------------------------------------------
(* State. *)

NoStep == [kind |-> "none", code_len |-> 0, target |-> 0, base |-> 0, extra_bits |-> 0,
           old |-> 0, total |-> 0, delta |-> 0, at |-> 0, adv |-> 0]

NoSymbol == [done |-> FALSE, peek |-> 0, value |-> 0, adv |-> 0, second |-> FALSE]

Zeros(n) == [k \in 0..(n - 1) |-> 0]

\* table_.resize(n)
Resize(t, n) == [k \in 0..(n - 1) |-> IF k \in DOMAIN t THEN t[k] ELSE HuffmanCode(0, 0)]

\* alphabet sizes explored: small ones, and those around the 8-bit and the
\* kMaxHuffmanBits limits
AlphabetSizes == {1, 2, 3, 4, 5, 256, 257, Pow2(kMaxHuffmanBits), Pow2(kMaxHuffmanBits) + 1}

\* table_ before the call: a fresh instance, or one holding the table of an
\* earlier one-symbol code
InitialTables == { << >>, [k \in 0..(Pow2(kHuffmanTableBits) - 1) |-> HuffmanCode(0, 1)] }

\* what a buffer the caller has not cleared holds (any uint8_t that is no length)
Uncleared == 255

\* meta codes given to direct calls of ReadHuffmanCodeLengths
MetaCode(pairs) == [k \in 0..(kCodeLengthCodes - 1) |->
                      IF \E q \in pairs : q[1] = k
                        THEN (CHOOSE q \in pairs : q[1] = k)[2] ELSE 0]

MetaCodes ==
  { MetaCode({<<1, 2>>, <<2, 2>>, <<16, 2>>, <<17, 2>>}),
    MetaCode({<<0, 2>>, <<3, 2>>, <<16, 2>>, <<4, 3>>, <<17, 3>>}),
    MetaCode({<<1, 1>>, <<16, 1>>}),
    MetaCode({<<2, 3>>}),
    MetaCode({<<1, 1>>, <<2, 2>>}) }

Locals ==
  /\ meta_table = << >>
  /\ simple_code_or_skip = 0
  /\ i = 0
  /\ meta_space = 0
  /\ num_codes = 0
  /\ symbol = 0
  /\ prev_code_len = 0
  /\ repeat = 0
  /\ repeat_code_len = 0
  /\ space = 0
  /\ ok = FALSE
  /\ result = FALSE
  /\ exit = "none"
  /\ last = NoStep
  /\ iters = 0
  /\ maxw = 0
  /\ sc = NoSimpleCode
  /\ rs = NoSymbol

\* a HuffmanDecodingData about to read a code description
Init ==
  /\ pc = "call"
  /\ alphabet_size \in AlphabetSizes
  /\ table_ \in InitialTables
  /\ table0 = table_
  /\ br = NewReader(MaxStreamBits)
  /\ code_length_code_lengths = Zeros(kCodeLengthCodes)
  /\ num_symbols = 0
  /\ code_lengths = << >>
  /\ Locals

\* a caller about to call ReadHuffmanCodeLengths on a buffer it has not cleared
InitLengths ==
  /\ pc = "rhcl_call"
  /\ alphabet_size = 0
  /\ table_ = << >>
  /\ table0 = table_
  /\ br = NewReader(MaxLengthBits)
  /\ code_length_code_lengths \in MetaCodes
  /\ num_symbols \in 1..MaxNumSymbols
  /\ code_lengths = [k \in 0..(num_symbols - 1) |-> Uncleared]
  /\ Locals

-----------------------------------------------------------------------------
(* HuffmanDecodingData::ReadFromBitStream (lines 189-244). *)

\* lines 192-206: up to the dispatch on simple_code_or_skip; the simple code is
\* read within the call
ReadFromBitStream ==
  /\ pc = "call"
  /\ IF alphabet_size > Pow2(kMaxHuffmanBits)
       THEN /\ pc' = "done"
            /\ result' = FALSE
            /\ UNCHANGED <<table_, br, simple_code_or_skip, i, meta_space, num_codes,
                           code_lengths, sc>>
       ELSE \E r \in ReadSet(br, 2) :
              /\ r.v # 1 => alphabet_size <= MaxComplexAlphabet
              /\ simple_code_or_skip' = r.v
              /\ IF r.v = 1
                   THEN \E o \in ReadSimpleCode(ToUint8(alphabet_size), r.br,
                                               Resize(table_, Pow2(kHuffmanTableBits))) :
                          /\ pc' = "done"
                          /\ table_' = o.table
                          /\ br' = o.br
                          /\ result' = o.ok
                          /\ sc' = o.sc
                          /\ UNCHANGED <<i, meta_space, num_codes, code_lengths>>
                   ELSE /\ pc' = "meta"
                        /\ br' = ShortStream(r.br, MaxComplexBits)
                        /\ i' = r.v
                        /\ meta_space' = 32
                        /\ num_codes' = 0
                        /\ code_lengths' = Zeros(alphabet_size)
                        /\ UNCHANGED <<table_, result, sc>>
  /\ UNCHANGED <<meta_table, alphabet_size, table0, code_length_code_lengths, num_symbols, symbol,
                 prev_code_len, repeat, repeat_code_len, space, ok, exit, last, iters,
                 maxw, rs>>

\* lines 216-228: one iteration of the meta-code length loop
ReadCodeLengthCodeLength ==
  /\ pc = "meta"
  /\ i < kCodeLengthCodes /\ meta_space > 0
  /\ \E p \in PeekSet(br, 4) :
       LET code_len_idx == kCodeLengthCodeOrder[i]
           e == huff[BrunsliBitReaderGet(p, 4)]
           v == ToUint8(e.value)
       IN  /\ br' = BrunsliBitReaderDrop(p, e.bits)
           /\ code_length_code_lengths' = [code_length_code_lengths EXCEPT ![code_len_idx] = v]
           /\ meta_space' = IF v # 0 THEN meta_space - Shr(32, v) ELSE meta_space
           /\ num_codes' = IF v # 0 THEN num_codes + 1 ELSE num_codes
           /\ last' = [NoStep EXCEPT !.kind = "meta", !.code_len = v, !.at = code_len_idx,
                                     !.adv = e.bits]
  /\ i' = i + 1
  /\ UNCHANGED <<meta_table, pc, alphabet_size, table_, table0, simple_code_or_skip, num_symbols,
                 code_lengths, symbol, prev_code_len, repeat, repeat_code_len, space, ok,
                 result, exit, iters, maxw, sc, rs>>

\* lines 216, 229-233: the loop ends; the code lengths are read unless the
\* meta code is neither a single code nor complete
CallReadHuffmanCodeLengths ==
  /\ pc = "meta"
  /\ ~(i < kCodeLengthCodes /\ meta_space > 0)
  /\ IF num_codes = 1 \/ meta_space = 0
       THEN /\ pc' = "rhcl_call"
            /\ num_symbols' = alphabet_size
            /\ UNCHANGED result
       ELSE /\ pc' = "done"
            /\ result' = FALSE
            /\ UNCHANGED num_symbols
  /\ UNCHANGED <<meta_table, alphabet_size, table_, table0, br, simple_code_or_skip, i, meta_space,
                 num_codes, code_length_code_lengths, code_lengths, symbol, prev_code_len,
                 repeat, repeat_code_len, space, ok, exit, last, iters, maxw, sc, rs>>

\* lines 233-243: after ReadHuffmanCodeLengths has returned
BuildTable ==
  /\ pc = "rhcl_ret"
  /\ pc' = "done"
  /\ IF ~ok \/ ~BrunsliBitReaderIsHealthy(br)
       THEN /\ result' = FALSE
            /\ UNCHANGED table_
       ELSE LET t == BuildHuffmanTable(kHuffmanTableBits, code_lengths, alphabet_size) IN
            /\ table_' = t
            /\ result' = (Size(t) > 0)
  /\ UNCHANGED <<meta_table, alphabet_size, table0, br, simple_code_or_skip, i, meta_space, num_codes,
                 code_length_code_lengths, num_symbols, code_lengths, symbol, prev_code_len,
                 repeat, repeat_code_len, space, ok, exit, last, iters, maxw, sc, rs>>

-----------------------------------------------------------------------------
(* ReadHuffmanCodeLengths (lines 27-94). *)

\* line 58: the space a literal length takes
LiteralSpace(code_len) == Shr(kFullSpace, code_len)

\* a count that is never reset when the repeated length changes
RepeatBase_Kept(rep, rep_code_len, new_len) == rep

\* lines 68-71: the count a repeat instruction starts from
RepeatBase(rep, rep_code_len, new_len) == IF rep_code_len # new_len THEN 0 ELSE rep

\* a count that leaves out the 3 every repeat instruction adds
RepeatTotal_NoMinimum(rep, extra_bits, base) ==
  (IF rep > 0 THEN (rep - 2) * Pow2(extra_bits) ELSE rep) + base

\* lines 73-77: the running repeat count after an instruction with `base` extra bits
RepeatTotal(rep, extra_bits, base) ==
  (IF rep > 0 THEN (rep - 2) * Pow2(extra_bits) ELSE rep) + base + 3

\* a bound check that lets a run end one past the buffer
RepeatOverflows_OffByOne(sym, repeat_delta, num) == sym + repeat_delta > num + 1

\* line 79
RepeatOverflows(sym, repeat_delta, num) == sym + repeat_delta > num

\* the space of one length, whatever the length of the run
RepeatSpace_Once(repeat_delta, len) == Shr(kFullSpace, len)

\* line 85: the space a run takes
RepeatSpace(repeat_delta, len) == AShr(ScaledToInt32(repeat_delta), len)

\* memset(&code_lengths[from], v, count)
Memset(cl, from, v, count) ==
  [k \in DOMAIN cl |-> IF from <= k /\ k < from + count THEN v ELSE cl[k]]

\* lines 30-45: the locals, and the table of the meta code
ReadHuffmanCodeLengths ==
  /\ pc = "rhcl_call"
  /\ symbol' = 0
  /\ prev_code_len' = kDefaultCodeLength
  /\ repeat' = 0
  /\ repeat_code_len' = 0
  /\ space' = kFullSpace
  /\ iters' = 0
  /\ maxw' = 0
  /\ last' = NoStep
  /\ meta_table' = BuildHuffmanTable(5, code_length_code_lengths, kCodeLengthCodes)
  /\ IF Size(meta_table') = 0
       THEN /\ pc' = "rhcl_ret"
            /\ ok' = FALSE
            /\ exit' = "build"
       ELSE /\ pc' = "rhcl"
            /\ UNCHANGED <<ok, exit>>
  /\ UNCHANGED <<alphabet_size, table_, table0, br, simple_code_or_skip, i, meta_space,
                 num_codes, code_length_code_lengths, num_symbols, code_lengths, result,
                 sc, rs>>

\* lines 47-88: one iteration of the loop
DecodeCodeLength ==
  /\ pc = "rhcl"
  /\ symbol < num_symbols /\ space > 0
  /\ iters' = iters + 1
  /\ \E q \in PeekSet(br, 5) :
       LET p == meta_table[BrunsliBitReaderGet(q, 5)]
           b1 == BrunsliBitReaderDrop(q, p.bits)
           code_len == ToUint8(p.value)
       IN
       IF code_len < kCodeLengthRepeatCode
         THEN /\ repeat' = 0
              /\ code_lengths' = Memset(code_lengths, symbol, code_len, 1)
              /\ maxw' = IF symbol + 1 > maxw THEN symbol + 1 ELSE maxw
              /\ symbol' = symbol + 1
              /\ prev_code_len' = IF code_len # 0 THEN code_len ELSE prev_code_len
              /\ space' = IF code_len # 0 THEN space - LiteralSpace(code_len) ELSE space
              /\ br' = b1
              /\ last' = [NoStep EXCEPT !.kind = "literal", !.code_len = code_len,
                                        !.at = symbol, !.adv = b1.pos - br.pos]
              /\ UNCHANGED <<pc, repeat_code_len, ok, exit>>
         ELSE LET extra_bits == code_len - 14
                  new_len == IF code_len = kCodeLengthRepeatCode THEN prev_code_len ELSE 0
                  rep0 == RepeatBase(repeat, repeat_code_len, new_len)
                  old_repeat == rep0
              IN
              \E r \in ReadSet(b1, extra_bits) :
                LET rep1 == RepeatTotal(rep0, extra_bits, r.v)
                    repeat_delta == rep1 - old_repeat
                IN
                /\ repeat' = rep1
                /\ repeat_code_len' = new_len
                /\ br' = r.br
                /\ last' = [kind |-> "repeat", code_len |-> code_len, target |-> new_len,
                            base |-> r.v, extra_bits |-> extra_bits, old |-> old_repeat,
                            total |-> rep1, delta |-> repeat_delta, at |-> symbol,
                            adv |-> r.br.pos - br.pos]
                /\ UNCHANGED prev_code_len
                /\ IF RepeatOverflows(symbol, repeat_delta, num_symbols)
                     THEN /\ pc' = "rhcl_ret"
                          /\ ok' = FALSE
                          /\ exit' = "overflow"
                          /\ UNCHANGED <<code_lengths, symbol, space, maxw>>
                     ELSE /\ code_lengths' = Memset(code_lengths, symbol, new_len, repeat_delta)
                          /\ maxw' = IF repeat_delta > 0 /\ symbol + repeat_delta > maxw
                                       THEN symbol + repeat_delta ELSE maxw
                          /\ symbol' = symbol + repeat_delta
                          /\ space' = IF new_len # 0
                                        THEN space - RepeatSpace(repeat_delta, new_len)
                                        ELSE space
                          /\ UNCHANGED <<pc, ok, exit>>
  /\ UNCHANGED <<meta_table, alphabet_size, table_, table0, simple_code_or_skip, i, meta_space,
                 num_codes, code_length_code_lengths, num_symbols, result, sc, rs>>

\* lines 47, 89-93: the loop ends
ReturnCodeLengths ==
  /\ pc = "rhcl"
  /\ ~(symbol < num_symbols /\ space > 0)
  /\ pc' = "rhcl_ret"
  /\ exit' = "loop"
  /\ IF space # 0
       THEN /\ ok' = FALSE
            /\ UNCHANGED <<code_lengths, maxw>>
       ELSE /\ code_lengths' = Memset(code_lengths, symbol, 0, num_symbols - symbol)
            /\ maxw' = IF num_symbols - symbol > 0 /\ num_symbols > maxw
                         THEN num_symbols ELSE maxw
            /\ ok' = BrunsliBitReaderIsHealthy(br)
  /\ UNCHANGED <<meta_table, alphabet_size, table_, table0, br, simple_code_or_skip, i, meta_space,
                 num_codes, code_length_code_lengths, num_symbols, symbol, prev_code_len,
                 repeat, repeat_code_len, space, result, last, iters, sc, rs>>

-----------------------------------------------------------------------------
(* HuffmanDecodingData::ReadSymbol (lines 247-260), on a table that was built. *)

ReadSymbol ==
  /\ pc = "done"
  /\ result
  /\ BrunsliBitReaderIsHealthy(br)
  /\ pc' = "decoded"
  /\ \E q \in PeekSet(br, kHuffmanTableBits) :
       LET idx == BrunsliBitReaderGet(q, kHuffmanTableBits)
           e == table_[idx]
           second == e.bits > kHuffmanTableBits
       IN
       \E q2 \in (IF second
                    THEN PeekSet(BrunsliBitReaderDrop(q, kHuffmanTableBits),
                                 e.bits - kHuffmanTableBits)
                    ELSE {q}) :
         LET e2 == IF second
                     THEN table_[idx + e.value +
                                 BrunsliBitReaderGet(q2, e.bits - kHuffmanTableBits)]
                     ELSE e
         IN  /\ br' = BrunsliBitReaderDrop(q2, e2.bits)
             /\ rs' = [done |-> TRUE, peek |-> idx, value |-> e2.value,
                       adv |-> br'.pos - br.pos, second |-> second]
  /\ UNCHANGED <<meta_table, alphabet_size, table_, table0, simple_code_or_skip, i, meta_space,
                 num_codes, code_length_code_lengths, num_symbols, code_lengths, symbol,
                 prev_code_len, repeat, repeat_code_len, space, ok, result, exit, last,
                 iters, maxw, sc>>

-----------------------------------------------------------------------------
(* Specifications. *)

\* a session: ReadFromBitStream, then one ReadSymbol
Next ==
  \/ ReadFromBitStream
  \/ ReadCodeLengthCodeLength
  \/ CallReadHuffmanCodeLengths
  \/ ReadHuffmanCodeLengths
  \/ DecodeCodeLength
  \/ ReturnCodeLengths
  \/ BuildTable
  \/ ReadSymbol

Spec == Init /\ [][Next]_vars

\* a direct call of ReadHuffmanCodeLengths
NextLengths ==
  \/ ReadHuffmanCodeLengths
  \/ DecodeCodeLength
  \/ ReturnCodeLengths

SpecLengths == InitLengths /\ [][NextLengths]_vars

-----------------------------------------------------------------------------
(* Properties of the simple-code path and of ReadSymbol, under Spec. *)

Returned == pc \in {"done", "decoded"}

SimpleCodeRead == Returned /\ simple_code_or_skip = 1 /\ sc.stage # "none"

SimpleCodeBuilt == SimpleCodeRead /\ result

\* ceil(log2(n)) for n >= 1
CeilLog2(n) == CHOOSE b \in 0..31 : Pow2(b) >= n /\ (b = 0 \/ Pow2(b - 1) < n)

\* C1: whenever ReadFromBitStream returns false, table_ is what it was before
\* the call.
C1_FailedCallLeavesTable ==
  (pc = "done" /\ ~result) => table_ = table0

\* C4: on the simple-code path every symbol value is read with
\* ceil(log2(alphabet_size)) bits and is rejected exactly when it is >=
\* alphabet_size, for every alphabet_size the entry point accepts.
C4_SymbolWidthAndRange ==
  SimpleCodeRead =>
    \A k \in 1..Len(sc.reads) :
      /\ sc.reads[k].bits = CeilLog2(alphabet_size)
      /\ sc.reads[k].rej <=> (sc.reads[k].v >= alphabet_size)

AllZeroWidth(t) ==
  /\ DOMAIN t = 0..(Pow2(kHuffmanTableBits) - 1)
  /\ \A k \in DOMAIN t : t[k] = HuffmanCode(0, 0)

\* C5 as stated: with alphabet_size = 1 and selector 1 the call always succeeds
\* on a healthy bit source, whatever bits follow the selector, and every entry
\* of the table is symbol 0 with width 0.
C5_AlwaysSucceeds ==
  (pc = "done" /\ alphabet_size = 1 /\ simple_code_or_skip = 1 /\ sc.stage # "none"
     /\ BrunsliBitReaderIsHealthy(br))
    => (result /\ AllZeroWidth(table_))

\* C5 amended: with alphabet_size = 1 and selector 1, on a healthy bit source
\* the call succeeds exactly when the two-bit symbol count field is 0 (one
\* symbol); the table then holds symbol 0 with width 0 at every index, and
\* ReadSymbol returns 0 and consumes 0 bits.  A count field of 1..3 makes the
\* call fail (the symbols, all 0, are duplicates).
C5_SucceedsIffOneSymbol ==
  (SimpleCodeRead /\ alphabet_size = 1 /\ (pc = "done" => BrunsliBitReaderIsHealthy(br)))
    => /\ result <=> (sc.n0 = 1)
       /\ result => AllZeroWidth(table_)
       /\ rs.done => (rs.value = 0 /\ rs.adv = 0 /\ ~rs.second)

C5_Witness ==
  pc = "decoded" /\ alphabet_size = 1 /\ simple_code_or_skip = 1 /\ rs.done /\ br.len > 0

\* the size of the hand-built table for a final symbol count
SmallSize(n) == CASE n = 1 -> 1 [] n = 2 -> 2 [] n = 3 -> 4 [] n = 4 -> 4 [] n = 5 -> 8

\* sum, over the distinct symbols of t[0..size-1], of 2^(3 - width)
RECURSIVE WidthSum(_, _, _)
WidthSum(t, size, k) ==
  IF k = size THEN 0
  ELSE (IF \E j \in 0..(k - 1) : t[j].value = t[k].value THEN 0 ELSE Pow2(3 - t[k].bits))
       + WidthSum(t, size, k + 1)

\* C6: after a successful ReadSimpleCode the table is the small table
\* replicated, the widths form a complete prefix code, symbols of equal width
\* are in increasing order of their bit-reversed codes, and ReadSymbol on a peek
\* i returns entry i's value and advances by its width, without the second
\* level.
C6_ReplicatedCanonicalTable ==
  SimpleCodeBuilt =>
    LET S == SmallSize(sc.n)
        W(k) == Pow2(table_[k].bits)
    IN  /\ DOMAIN table_ = 0..(Pow2(kHuffmanTableBits) - 1)
        /\ \A k \in DOMAIN table_ : table_[k] = table_[k % S]
        /\ \A k \in 0..(S - 1) :
             /\ table_[k].bits \in 0..3
             /\ table_[k] = table_[k % W(k)]
        /\ \A j, k \in 0..(S - 1) :
             table_[j].value = table_[k].value => table_[j].bits = table_[k].bits
        /\ WidthSum(table_, S, 0) = 8
        /\ \A j, k \in 0..(S - 1) :
             (/\ table_[j].bits = table_[k].bits
              /\ ReverseBits(j % W(j), table_[j].bits) < ReverseBits(k % W(k), table_[k].bits))
               => table_[j].value < table_[k].value
        /\ rs.done => /\ rs.value = table_[rs.peek].value
                      /\ rs.adv = table_[rs.peek].bits
                      /\ ~rs.second

C6_Witness ==
  pc = "decoded" /\ simple_code_or_skip = 1 /\ sc.n = 5 /\ rs.peek = 7 /\ rs.adv = 3

\* the symbol values the table realizes, and the symbols read from the stream
Realized == { table_[k].value : k \in DOMAIN table_ }
SymbolsRead == { sc.symbols[k] : k \in 0..(sc.n0 - 1) }
Widths(t, size) == [k \in 0..(size - 1) |-> t[k].bits]

\* C10 as stated: for every final symbol count n in 1..5 the table realizes
\* exactly n distinct symbol values, each one of the symbols read; for n = 5
\* the layout is 1/2/1/3/1/2/1/3.
C10_RealizesNSymbols ==
  SimpleCodeBuilt =>
    /\ Cardinality(Realized) = sc.n
    /\ Realized \subseteq SymbolsRead
    /\ sc.n = 5 => Widths(table_, 8) = FromSeq(<<1, 2, 1, 3, 1, 2, 1, 3>>)

\* C10 amended: the table realizes exactly the pairwise-distinct symbols read:
\* n of them for a final count n in 1..4, and 4 of them for n = 5, which is the
\* second shape of a 4-symbol code (widths 1, 2, 3, 3, laid out 1/2/1/3/1/2/1/3),
\* not a 5-symbol code.
C10_RealizesSymbolsRead ==
  SimpleCodeBuilt =>
    /\ sc.n \in 1..5
    /\ sc.n0 = (IF sc.n = 5 THEN 4 ELSE sc.n)
    /\ Cardinality(SymbolsRead) = sc.n0
    /\ Realized = SymbolsRead
    /\ sc.n = 5 => Widths(table_, 8) = FromSeq(<<1, 2, 1, 3, 1, 2, 1, 3>>)
    /\ sc.n = 4 => Widths(table_, 4) = FromSeq(<<2, 2, 2, 2>>)

C10_Witness ==
  pc = "done" /\ result /\ simple_code_or_skip = 1 /\ sc.n = 5
    /\ sc.symbols[0] > sc.symbols[3]

-----------------------------------------------------------------------------
(* The meta-code length loop of ReadFromBitStream, under Spec. *)

\* the traversal order, as the format gives it
C7_Order == <<1, 2, 3, 4, 0, 5, 17, 6, 16, 7, 8, 9, 10, 11, 12, 13, 14, 15>>

\* the width of the static code of a meta-code length
C7_Width(v) == CASE v \in {0, 3, 4} -> 2 [] v = 2 -> 3 [] v \in {1, 5} -> 4

C7_InLoop == pc = "meta" /\ i' = i + 1

C7_Positions ==
  /\ pc = "meta" =>
       /\ simple_code_or_skip <= i /\ i <= kCodeLengthCodes
       /\ \A k \in 0..(kCodeLengthCodes - 1) :
            (k < simple_code_or_skip \/ k >= i) => code_length_code_lengths[C7_Order[k + 1]] = 0
  /\ pc \in {"rhcl_call", "rhcl", "rhcl_ret"} => (i = kCodeLengthCodes \/ meta_space <= 0)

C7_Visit(four_bits) ==
  C7_InLoop =>
    LET idx == C7_Order[i + 1]
        v == code_length_code_lengths'[idx]
    IN  /\ meta_space > 0
        /\ v \in 0..5
        /\ br'.pos - br.pos = (IF four_bits THEN 4 ELSE C7_Width(v))
        /\ \A k \in 0..(kCodeLengthCodes - 1) :
             k # idx => code_length_code_lengths'[k] = code_length_code_lengths[k]

\* C7 as stated: each meta-code length is a four-bit value (reading one
\* advances the bit position by exactly 4), positions are visited in the fixed
\* order from index `selector`, skipped positions keep 0, and reading stops
\* once the budget of 32 is no longer positive.
C7_FourBitLengths == [][C7_Visit(TRUE)]_vars /\ []C7_Positions

\* C7 amended: each meta-code length is a value 0..5 read with the static
\* prefix code of widths 2 (values 0, 3, 4), 3 (value 2) and 4 (values 1, 5):
\* reading one advances the bit position by that width, 2 to 4 bits; order,
\* skipped positions and the stop on the budget are as stated.
C7_PrefixCodedLengths == [][C7_Visit(FALSE)]_vars /\ []C7_Positions

C7_Witness ==
  pc = "meta" /\ last.kind = "meta" /\ last.code_len = 2 /\ last.adv = 3 /\ i > 4

-----------------------------------------------------------------------------
(* ReadHuffmanCodeLengths, under SpecLengths. *)

\* sum over the emitted nonzero lengths (those below the write index) of
\* 2^(15 - len)
RECURSIVE EmittedSpace(_, _)
EmittedSpace(cl, n) ==
  IF n = 0 THEN 0
  ELSE EmittedSpace(cl, n - 1) + (IF cl[n - 1] # 0 THEN Pow2(15 - cl[n - 1]) ELSE 0)

\* C2: when the loop exits and the bit source is healthy, the function returns
\* true iff the emitted nonzero lengths sum to exactly 2^15; on true every
\* output entry is in 0..15 and the entries the loop did not reach are 0.
C2_AcceptsExactlyCompleteCodes ==
  (pc = "rhcl_ret" /\ exit = "loop" /\ BrunsliBitReaderIsHealthy(br)) =>
    /\ ok <=> (EmittedSpace(code_lengths, symbol) = Pow2(15))
    /\ ok => \A k \in 0..(num_symbols - 1) :
               /\ code_lengths[k] \in 0..15
               /\ k >= symbol => code_lengths[k] = 0

C2_Witness ==
  pc = "rhcl_ret" /\ ok /\ symbol < num_symbols /\ last.kind = "repeat" /\ last.old > 0

\* C3: the write index never exceeds num_symbols, nothing is written at an
\* index >= num_symbols, a literal is written below num_symbols, and a repeat
\* that would pass num_symbols returns false with no copy of its run written.
C3_WritesStayInBounds ==
  /\ symbol <= num_symbols
  /\ maxw <= num_symbols
  /\ last.kind = "literal" => last.at < num_symbols
  /\ (last.kind = "repeat" /\ last.at + last.delta > num_symbols) =>
       /\ pc = "rhcl_ret" /\ exit = "overflow" /\ ~ok
       /\ symbol = last.at
  /\ (pc = "rhcl" \/ exit = "overflow") =>
       \A k \in symbol..(num_symbols - 1) : code_lengths[k] = Uncleared

C3_Witness ==
  exit = "overflow" /\ symbol > 0 /\ last.at + last.delta > num_symbols + 1

\* C8: every iteration returns false or increases `symbol` (by 1 for a
\* literal, by repeat_delta >= 3 for a repeat), so there are at most
\* num_symbols iterations, and the call returns: a step is enabled until it has.
C8_LoopTerminates ==
  /\ iters <= (IF exit = "overflow" THEN symbol + 1 ELSE symbol)
  /\ iters <= num_symbols
  /\ symbol <= num_symbols
  /\ last.kind = "repeat" => last.delta >= 3 /\ last.total > last.old
  /\ (last.kind = "literal" /\ pc # "rhcl_call") => symbol = last.at + 1
  /\ (last.kind = "repeat" /\ pc # "rhcl_call") =>
       \/ symbol = last.at + last.delta
       \/ pc = "rhcl_ret" /\ exit = "overflow" /\ ~ok
  /\ pc = "rhcl_ret" \/ ENABLED NextLengths

C8_Witness ==
  pc = "rhcl_ret" /\ exit = "loop" /\ iters >= 4 /\ last.kind = "repeat"

\* what a repeat instruction must do, given how the count of a continued run
\* is carried over
C9_Repeat(less_two) ==
  (pc = "rhcl" /\ iters' = iters + 1 /\ last'.kind = "repeat") =>
    LET continues == last.kind = "repeat" /\ last.target = last'.target
        extra == last'.code_len - 14
        old == IF continues THEN repeat ELSE 0
        carried == (IF less_two THEN repeat - 2 ELSE repeat) * Pow2(extra)
        new == (IF continues THEN carried ELSE 0) + last'.base + 3
    IN  /\ last'.code_len \in {16, 17}
        /\ last'.target = (IF last'.code_len = 16 THEN prev_code_len ELSE 0)
        /\ last'.base \in 0..(Pow2(extra) - 1)
        /\ repeat' = new
        /\ exit' # "overflow" =>
             /\ symbol' = symbol + (new - old)
             /\ \A k \in 0..(num_symbols - 1) :
                  code_lengths'[k] = (IF symbol <= k /\ k < symbol' THEN last'.target
                                      ELSE code_lengths[k])

\* C9 as stated: a repeat that continues the run of the preceding repeat makes
\* the total (prior count << extra_bits) + base + 3; otherwise base + 3; and
\* (new total - old total) copies of the target length are emitted.
C9_PriorCountShifted == [][C9_Repeat(FALSE)]_vars

\* C9 amended: a repeat that continues the run of the preceding repeat makes
\* the total ((prior count - 2) << extra_bits) + base + 3; otherwise base + 3;
\* and (new total - old total) copies of the target length are emitted.
C9_PriorCountLessTwoShifted == [][C9_Repeat(TRUE)]_vars

C9_Witness ==
  pc = "rhcl" /\ last.kind = "repeat" /\ last.old > 0 /\ last.code_len = 17
    /\ symbol = last.at + last.delta

====
